---- MODULE Spec2Model ----
(***************************************************************************)
(* Model of the QEMU JNI process bridge (qemu_jni.c): the fixed table of   *)
(* four process handles, the operations nativeStart / nativeStop /         *)
(* nativeGetStatus / nativeCleanup, the load and unload hooks, the         *)
(* operating system's view of the forked children (alive, killed, zombie,  *)
(* reaped), and the 512-byte header nativeCreateDisk writes.               *)
(***************************************************************************)
EXTENDS Integers, Sequences, FiniteSets, TLC

VARIABLES
    loaded,     \* the library is loaded (JNI_OnLoad has run, JNI_OnUnload has not)
    handles,    \* static QemuHandle* handles[MAX_HANDLES]
    procs,      \* OS: state of each child pid: "free", "alive", "dying", "zombie"
    owner,      \* OS: the slot whose fork created the process now holding a pid
    pc,         \* where the (single) calling thread is inside the bridge
    cur,        \* locals of the call in flight: handle_id and the loop counter i
    last,       \* observation of the call in flight / last returned call
    issued,     \* whether the starts since the table was empty came out in order
    disk,       \* nativeCreateDisk: the request and the file it left
    stale,      \* the id a Start gave out again right after its Cleanup (or NoSlot)
    thr,        \* two-thread runs: the locals of each thread inside nativeStart
    heap        \* two-thread runs: the QemuHandle records calloc has returned

vars == <<loaded, handles, procs, owner, pc, cur, last, issued, disk, stale, thr, heap>>

(* ------------------------------------------------------------------ *)
(* Program constants and model bounds                                  *)
(* ------------------------------------------------------------------ *)
MAX_HANDLES == 4
STOP_POLLS == 50
HEADER_SIZE == 512
MaxPid == 4
MaxSmallSize == 20

Slots == 0 .. (MAX_HANDLES - 1)
Pids == 1 .. MaxPid
\* jlong handle ids a caller may pass: every slot index and ids out of range
HandleArgs == -1 .. MAX_HANDLES
\* values an uninitialised jlong may hold when it is returned
Indeterminate == {-1, 0, MAX_HANDLES}
StringParams == {"qemu_binary", "iso_path", "disk_path", "ports"}
NoSlot == -1

NULL == [null |-> TRUE]
JNI_TRUE == 1
JNI_FALSE == 0

(* ------------------------------------------------------------------ *)
(* Handle table helpers                                                *)
(* ------------------------------------------------------------------ *)
\* an id given out again after its Cleanup refused (a generation check)
get_handle_rejects_reissued(handle_id) ==
    IF handle_id >= 0 /\ handle_id < MAX_HANDLES /\ handle_id # stale
    THEN handles[handle_id]
    ELSE NULL

\* the lower bound tested with > instead of >=
get_handle_above_zero(handle_id) ==
    IF handle_id > 0 /\ handle_id < MAX_HANDLES
    THEN handles[handle_id]
    ELSE NULL

get_handle(handle_id) ==
    IF handle_id >= 0 /\ handle_id < MAX_HANDLES
    THEN handles[handle_id]
    ELSE NULL

\* calloc(1, sizeof(QemuHandle)): a zeroed record, or NULL when it fails
calloc_handle(ok) ==
    IF ok THEN [pid |-> 0, running |-> 0] ELSE NULL

\* the loop of allocate_handle from index i on; callocFails is the set of
\* slots for which calloc would return NULL.  Result: <<id, table>>.
RECURSIVE alloc_scan(_, _, _)
alloc_scan(i, tbl, callocFails) ==
    IF i >= MAX_HANDLES THEN <<-1, tbl>>
    ELSE IF tbl[i] = NULL
         THEN LET t2 == [tbl EXCEPT ![i] = calloc_handle(i \notin callocFails)]
              IN  IF t2[i] # NULL THEN <<i, t2>>
                  ELSE alloc_scan(i + 1, t2, callocFails)
         ELSE alloc_scan(i + 1, tbl, callocFails)

allocate_handle(tbl, callocFails) == alloc_scan(0, tbl, callocFails)

\* the running flag not consulted
is_running_unchecked(handle) == TRUE

\* the tests of handle->running
is_running(handle) == handle.running # 0

\* the record released instead of marked
mark_stopped_frees(tbl, h) == [tbl EXCEPT ![h] = NULL]

\* the assignment left out
mark_stopped_omitted(tbl, h) == tbl

\* handle->running = 0 on the record in slot h
mark_stopped(tbl, h) == [tbl EXCEPT ![h].running = 0]

\* the lower bound tested with > instead of >=
free_handle_above_zero(tbl, handle_id) ==
    IF handle_id > 0 /\ handle_id < MAX_HANDLES /\ tbl[handle_id] # NULL
    THEN [tbl EXCEPT ![handle_id] = NULL]
    ELSE tbl

\* the slot not reset to NULL
free_handle_keeps_slot(tbl, handle_id) == tbl

free_handle(tbl, handle_id) ==
    IF handle_id >= 0 /\ handle_id < MAX_HANDLES /\ tbl[handle_id] # NULL
    THEN [tbl EXCEPT ![handle_id] = NULL]
    ELSE tbl

(* ------------------------------------------------------------------ *)
(* Operating system: kill(2) and waitpid(2) on the children            *)
(* ------------------------------------------------------------------ *)
Exists(pid) == pid \in Pids /\ procs[pid] # "free"

\* the result of kill read the wrong way round
kill_result_inverted(pid) == IF Exists(pid) THEN -1 ELSE 0

\* kill(pid, sig): 0 when the pid names a child (running or zombie), else -1
kill_result(pid) == IF Exists(pid) THEN 0 ELSE -1

\* a SIGKILL that does not end the process
after_sigkill_ignored(pr, pid) == pr

\* process table after kill(pid, SIGKILL)
after_sigkill(pr, pid) ==
    IF pid \in Pids /\ pr[pid] = "alive" THEN [pr EXCEPT ![pid] = "dying"] ELSE pr

\* a wait that never reports an exit
waitpid_nohang_blind(pid) == IF ~Exists(pid) THEN -1 ELSE 0

\* waitpid(pid, &status, WNOHANG): pid when a zombie is reaped, 0 when the
\* child has not exited, -1 when there is no such child
waitpid_nohang(pid) ==
    IF ~Exists(pid) THEN -1
    ELSE IF procs[pid] = "zombie" THEN pid ELSE 0

\* process table and ownership after a successful reap of pid
reap(pr, pid) == [pr EXCEPT ![pid] = "free"]
disown(ow, pid) == [ow EXCEPT ![pid] = NoSlot]

\* a wait that returns without waiting
wait_returns_at_once(pid) == TRUE

\* waitpid(pid, NULL, 0) returns: at once when there is no such child,
\* otherwise only once the child has exited
wait_returns(pid) == ~Exists(pid) \/ procs[pid] = "zombie"

\* process table after a wait on pid has returned: an exited child is reaped
after_wait(pr, pid) ==
    IF pid \in Pids /\ pr[pid] = "zombie" THEN reap(pr, pid) ELSE pr

owner_after_wait(ow, pr, pid) ==
    IF pid \in Pids /\ pr[pid] = "zombie" THEN disown(ow, pid) ELSE ow

\* every result but an error taken for the exit
exited_unless_error(result, pid) == result # -1

\* the test written as `result == 0`
exited_when_zero(result, pid) == result = 0

\* the test `result == handle->pid`: the wait reported the child's exit
exited(result, pid) == result = pid

FreePids == {p \in Pids : procs[p] = "free"}

(* ------------------------------------------------------------------ *)
(* Observation of calls                                                *)
(* ------------------------------------------------------------------ *)
Call(op, h) ==
    [op |-> op, h |-> h, done |-> FALSE, ret |-> 0, path |-> "",
     sigs |-> <<>>, waited |-> FALSE, skipped |-> {}, freed |-> 0]

Return(c, ret, path) == [c EXCEPT !.done = TRUE, !.ret = ret, !.path = path]

Sent(c, sig, pid) == [c EXCEPT !.sigs = Append(@, <<sig, pid>>)]

Idle == [h |-> 0, i |-> 0]

NoDisk == [asked |-> FALSE, size_mb |-> 0, ret |-> JNI_FALSE, file |-> <<>>]

Occupied(tbl) == {s \in Slots : tbl[s] # NULL}

Fresh == [clean |-> TRUE, inOrder |-> TRUE]

\* the run of starts is over once a slot was emptied or an allocation failed
Broken == [clean |-> FALSE, inOrder |-> TRUE]

\* bookkeeping after a slot was emptied: the run restarts once the table
\* is empty again
AfterFree(tbl) == IF Occupied(tbl) = {} THEN Fresh ELSE Broken

\* no thread is inside a two-thread run
NoThreads == <<>>

\* the id a successful Start returns is stale when the call before it was
\* the Cleanup that emptied this very slot: the caller may still hold it
reissued(failed, handle_id, forkPid) ==
    IF /\ failed = {} /\ handle_id >= 0 /\ forkPid >= 0
       /\ last.op = "Cleanup" /\ last.done
       /\ last.path \in {"freed", "killed"} /\ last.h = handle_id
    THEN handle_id
    ELSE NoSlot

\* the stale id is followed into the first step of the call made with it
still_stale(handle_id) == IF handle_id = stale THEN stale ELSE NoSlot

InitBridge ==
    /\ loaded = TRUE
    /\ handles = [s \in Slots |-> NULL]
    /\ procs = [p \in Pids |-> "free"]
    /\ owner = [p \in Pids |-> NoSlot]
    /\ pc = "idle"
    /\ cur = Idle
    /\ last = Return(Call("JNI_OnLoad", NoSlot), 0, "")
    /\ issued = Fresh
    /\ stale = NoSlot
    /\ thr = NoThreads
    /\ heap = <<>>

Init == InitBridge /\ disk = NoDisk

(* ------------------------------------------------------------------ *)
(* nativeStart                                                         *)
(* ------------------------------------------------------------------ *)
\* failed: the string parameters GetStringUTFChars could not deliver;
\* callocFails: slots for which calloc fails; forkPid: fork()'s result in
\* the parent (-1 on failure); garbage: the indeterminate value of the
\* not yet initialised handle_id that `goto cleanup` returns.
nativeStart(failed, callocFails, forkPid, garbage) ==
    /\ pc = "idle" /\ loaded
    /\ LET a == allocate_handle(handles, callocFails)
           handle_id == a[1]
           \* the empty slots the scan passed because calloc failed there
           skipped == {s \in callocFails : handles[s] = NULL
                                           /\ (handle_id < 0 \/ s < handle_id)}
           c == [Call("Start", NoSlot) EXCEPT
                   !.skipped = IF failed # {} THEN {} ELSE skipped]
       IN
       IF failed # {}
       THEN /\ last' = Return(c, garbage, "strings")
            /\ UNCHANGED <<handles, procs, owner, issued>>
       ELSE IF handle_id < 0
       THEN /\ last' = Return(c, handle_id, "noslot")
            /\ handles' = a[2]
            /\ UNCHANGED <<procs, owner, issued>>
       ELSE IF forkPid < 0
       THEN /\ last' = Return(c, -1, "fork")
            /\ handles' = free_handle(a[2], handle_id)
            /\ UNCHANGED <<procs, owner, issued>>
       ELSE /\ last' = Return(c, handle_id, "ok")
            /\ handles' = [a[2] EXCEPT ![handle_id] = [pid |-> forkPid, running |-> 1]]
            /\ procs' = [procs EXCEPT ![forkPid] = "alive"]
            /\ owner' = [owner EXCEPT ![forkPid] = handle_id]
            /\ issued' = IF ~issued.clean THEN issued
                         ELSE IF skipped # {} THEN Broken
                         ELSE [issued EXCEPT !.inOrder =
                                 @ /\ handle_id = Cardinality(Occupied(handles))]
    /\ stale' = reissued(failed, allocate_handle(handles, callocFails)[1], forkPid)
    /\ UNCHANGED <<loaded, pc, cur, disk, thr, heap>>

(* ------------------------------------------------------------------ *)
(* nativeStop: the call, the polling loop, the forced kill, the wait   *)
(* ------------------------------------------------------------------ *)
nativeStop(handle_id) ==
    /\ pc = "idle" /\ loaded
    /\ LET c == Call("Stop", handle_id)
           handle == get_handle(handle_id)
       IN
       IF handle = NULL
       THEN /\ last' = Return(c, JNI_FALSE, "invalid")
            /\ UNCHANGED <<pc, cur>>
       ELSE IF ~is_running(handle)
       THEN /\ last' = Return(c, JNI_TRUE, "already")
            /\ UNCHANGED <<pc, cur>>
       ELSE /\ last' = Sent(c, "SIGTERM", handle.pid)
            /\ cur' = [h |-> handle_id, i |-> 0]
            /\ pc' = IF kill_result(handle.pid) = 0 THEN "stop_poll" ELSE "stop_force"
    /\ stale' = IF pc' = "idle" THEN NoSlot ELSE still_stale(handle_id)
    /\ UNCHANGED <<loaded, handles, procs, owner, issued, disk, thr, heap>>

\* one round of the loop: waitpid(WNOHANG), then return or usleep and i++
StopPoll ==
    /\ pc = "stop_poll" /\ cur.i < STOP_POLLS
    /\ LET handle == handles[cur.h]
           result == waitpid_nohang(handle.pid)
           c == [last EXCEPT !.waited = TRUE]
       IN
       /\ procs' = after_wait(procs, handle.pid)
       /\ owner' = owner_after_wait(owner, procs, handle.pid)
       /\ IF exited(result, handle.pid)
          THEN /\ handles' = mark_stopped(handles, cur.h)
               /\ last' = Return(c, JNI_TRUE, "graceful")
               /\ pc' = "idle"
               /\ cur' = Idle
          ELSE /\ last' = c
               /\ cur' = [cur EXCEPT !.i = @ + 1]
               /\ pc' = IF cur.i + 1 < STOP_POLLS THEN "stop_poll" ELSE "stop_force"
               /\ UNCHANGED handles
    /\ stale' = NoSlot
    /\ UNCHANGED <<loaded, issued, disk, thr, heap>>

\* kill(handle->pid, SIGKILL)
StopForce ==
    /\ pc = "stop_force"
    /\ LET handle == handles[cur.h]
       IN  /\ procs' = after_sigkill(procs, handle.pid)
           /\ last' = Sent(last, "SIGKILL", handle.pid)
    /\ pc' = "stop_wait"
    /\ stale' = NoSlot
    /\ UNCHANGED <<loaded, handles, owner, cur, issued, disk, thr, heap>>

\* waitpid(handle->pid, NULL, 0); handle->running = 0; return JNI_TRUE
StopWait ==
    /\ pc = "stop_wait"
    /\ LET handle == handles[cur.h]
       IN  /\ wait_returns(handle.pid)
           /\ procs' = after_wait(procs, handle.pid)
           /\ owner' = owner_after_wait(owner, procs, handle.pid)
           /\ handles' = mark_stopped(handles, cur.h)
           /\ last' = Return([last EXCEPT !.waited = TRUE], JNI_TRUE, "forced")
    /\ pc' = "idle"
    /\ cur' = Idle
    /\ stale' = NoSlot
    /\ UNCHANGED <<loaded, issued, disk, thr, heap>>

(* ------------------------------------------------------------------ *)
(* nativeGetStatus                                                     *)
(* ------------------------------------------------------------------ *)
nativeGetStatus(handle_id) ==
    /\ pc = "idle" /\ loaded
    /\ LET c == Call("GetStatus", handle_id)
           handle == get_handle(handle_id)
       IN
       IF handle = NULL
       THEN /\ last' = Return(c, -1, "invalid")
            /\ UNCHANGED <<handles, procs, owner>>
       ELSE IF ~is_running(handle)
       THEN /\ last' = Return(c, 0, "already")
            /\ UNCHANGED <<handles, procs, owner>>
       ELSE LET result == waitpid_nohang(handle.pid)
                w == [c EXCEPT !.waited = TRUE]
            IN  /\ procs' = after_wait(procs, handle.pid)
                /\ owner' = owner_after_wait(owner, procs, handle.pid)
                /\ IF result = 0
                   THEN /\ last' = Return(w, 1, "running")
                        /\ UNCHANGED handles
                   ELSE IF exited(result, handle.pid)
                   THEN /\ handles' = mark_stopped(handles, handle_id)
                        /\ last' = Return(w, 0, "exited")
                   ELSE /\ last' = Return(w, -1, "error")
                        /\ UNCHANGED handles
    /\ stale' = NoSlot
    /\ UNCHANGED <<loaded, pc, cur, issued, disk, thr, heap>>

(* ------------------------------------------------------------------ *)
(* nativeCleanup: the call (with the kill) and the blocking wait       *)
(* ------------------------------------------------------------------ *)
nativeCleanup(handle_id) ==
    /\ pc = "idle" /\ loaded
    /\ LET c == Call("Cleanup", handle_id)
           handle == get_handle(handle_id)
       IN
       IF handle = NULL
       THEN /\ last' = Return(c, 0, "invalid")
            /\ UNCHANGED <<handles, procs, pc, cur, issued>>
       ELSE IF is_running(handle)
       THEN /\ procs' = after_sigkill(procs, handle.pid)
            /\ last' = Sent(c, "SIGKILL", handle.pid)
            /\ pc' = "cleanup_wait"
            /\ cur' = [h |-> handle_id, i |-> 0]
            /\ UNCHANGED <<handles, issued>>
       ELSE /\ handles' = free_handle(handles, handle_id)
            /\ issued' = AfterFree(handles')
            /\ last' = Return(c, 0, "freed")
            /\ UNCHANGED <<procs, pc, cur>>
    /\ stale' = IF pc' = "cleanup_wait" THEN still_stale(handle_id) ELSE NoSlot
    /\ UNCHANGED <<loaded, owner, disk, thr, heap>>

\* waitpid(handle->pid, NULL, 0); free_handle(handle_id)
CleanupWait ==
    /\ pc = "cleanup_wait"
    /\ LET handle == handles[cur.h]
       IN  /\ wait_returns(handle.pid)
           /\ procs' = after_wait(procs, handle.pid)
           /\ owner' = owner_after_wait(owner, procs, handle.pid)
    /\ handles' = free_handle(handles, cur.h)
    /\ issued' = AfterFree(handles')
    /\ last' = Return([last EXCEPT !.waited = TRUE], 0, "killed")
    /\ pc' = "idle"
    /\ cur' = Idle
    /\ stale' = NoSlot
    /\ UNCHANGED <<loaded, disk, thr, heap>>

(* ------------------------------------------------------------------ *)
(* JNI_OnUnload                                                        *)
(* ------------------------------------------------------------------ *)
\* the sweep without the test of the running flag
RECURSIVE unload_scan_all(_, _, _)
unload_scan_all(i, sigs, pr) ==
    IF i >= MAX_HANDLES THEN <<sigs, pr>>
    ELSE IF handles[i] # NULL
         THEN unload_scan_all(i + 1, Append(sigs, <<"SIGKILL", handles[i].pid>>),
                              after_sigkill(pr, handles[i].pid))
         ELSE unload_scan_all(i + 1, sigs, pr)

\* the sweep from slot i on: <<signals sent, process table>>
RECURSIVE unload_scan(_, _, _)
unload_scan(i, sigs, pr) ==
    IF i >= MAX_HANDLES THEN <<sigs, pr>>
    ELSE IF handles[i] # NULL /\ is_running(handles[i])
         THEN unload_scan(i + 1, Append(sigs, <<"SIGKILL", handles[i].pid>>),
                          after_sigkill(pr, handles[i].pid))
         ELSE unload_scan(i + 1, sigs, pr)

JNI_OnUnload ==
    /\ pc = "idle" /\ loaded
    /\ LET r == unload_scan(0, <<>>, procs)
       IN  /\ procs' = r[2]
           /\ last' = Return([Call("JNI_OnUnload", NoSlot) EXCEPT
                                 !.sigs = r[1],
                                 !.freed = Cardinality(Occupied(handles))], 0, "")
    /\ handles' = [s \in Slots |-> NULL]
    \* the processes left behind are tracked by no slot any more
    /\ owner' = [p \in Pids |-> NoSlot]
    /\ issued' = Fresh
    /\ loaded' = FALSE
    /\ stale' = NoSlot
    /\ UNCHANGED <<pc, cur, disk, thr, heap>>

(* ------------------------------------------------------------------ *)
(* nativeCreateDisk: the 512-byte header                               *)
(* ------------------------------------------------------------------ *)
RECURSIVE Pow2(_)
Pow2(k) == IF k = 0 THEN 1 ELSE 2 * Pow2(k - 1)

\* (uint64_t)size_mb for a jint: sign extension to 64 bits, kept as the
\* eight bytes of the value, least significant first
u64_from_jint(x) ==
    [k \in 1 .. 8 |->
        IF k <= 4 THEN (x \div Pow2(8 * (k - 1))) % 256
        ELSE IF x < 0 THEN 255 ELSE 0]

\* a * m in uint64_t arithmetic (mod 2^64), for a small factor m
RECURSIVE u64_mul_from(_, _, _, _)
u64_mul_from(a, m, k, carry) ==
    IF k > 8 THEN <<>>
    ELSE LET t == a[k] * m + carry
         IN  <<t % 256>> \o u64_mul_from(a, m, k + 1, t \div 256)

u64_mul(a, m) == u64_mul_from(a, m, 1, 0)

\* (a >> s) & 0xFF for 0 <= s < 64
u64_shr_low8(a, s) ==
    LET idx == (s \div 8) + 1
        off == s % 8
        hi  == IF idx + 1 <= 8 THEN a[idx + 1] ELSE 0
    IN  ((a[idx] \div Pow2(off)) + hi * Pow2(8 - off)) % 256

size_bytes_of(size_mb) == u64_mul(u64_mul(u64_from_jint(size_mb), 1024), 1024)

\* the size stored least significant byte first
size_byte_le(size_mb, i) == u64_shr_low8(size_bytes_of(size_mb), i * 8)

\* header[24 + i] for i in 0..7
size_byte(size_mb, i) == u64_shr_low8(size_bytes_of(size_mb), 56 - i * 8)

\* the header array after all the assignments; offset o is element o + 1
disk_header(size_mb) ==
    [n \in 1 .. HEADER_SIZE |->
        LET o == n - 1
        IN  IF o = 0 THEN 81          \* 'Q'
            ELSE IF o = 1 THEN 70     \* 'F'
            ELSE IF o = 2 THEN 73     \* 'I'
            ELSE IF o = 3 THEN 251    \* 0xFB
            ELSE IF o = 7 THEN 3
            ELSE IF o = 23 THEN 16
            ELSE IF o >= 24 /\ o < 32 THEN size_byte(size_mb, o - 24)
            ELSE 0]

\* pathOk: GetStringUTFChars delivered the path; fopenOk: fopen succeeded.
\* A failed call leaves the file as it was.
nativeCreateDisk(size_mb, pathOk, fopenOk) ==
    /\ pc = "idle" /\ loaded
    /\ disk' =
         IF ~pathOk \/ ~fopenOk
         THEN [disk EXCEPT !.asked = TRUE, !.size_mb = size_mb, !.ret = JNI_FALSE]
         ELSE [asked |-> TRUE, size_mb |-> size_mb, ret |-> JNI_TRUE,
               file |-> disk_header(size_mb)]
    /\ UNCHANGED <<loaded, handles, procs, owner, pc, cur, last, issued>>
    /\ UNCHANGED <<stale, thr, heap>>

\* requested sizes: a range around zero, and the powers of two, their
\* neighbours and negations up to the ends of the jint range
SizeSamples ==
    (-MaxSmallSize .. MaxSmallSize)
    \cup {Pow2(k) : k \in 0 .. 30}
    \cup {Pow2(k) - 1 : k \in 0 .. 30}
    \cup {-Pow2(k) : k \in 0 .. 30}
    \cup {2147483647, -2147483647, -2147483647 - 1}

\* the disk specification: the requested size is drawn at the start and
\* nativeCreateDisk is applied to it
InitDisk ==
    /\ InitBridge
    /\ \E size_mb \in SizeSamples : disk = [NoDisk EXCEPT !.size_mb = size_mb]

NextDisk ==
    \E pathOk \in BOOLEAN, fopenOk \in BOOLEAN :
        nativeCreateDisk(disk.size_mb, pathOk, fopenOk)

SpecDisk == InitDisk /\ [][NextDisk]_vars

(* ------------------------------------------------------------------ *)
(* Environment: a child exits (on its own, after SIGTERM, after a      *)
(* failed exec, or because SIGKILL was delivered)                      *)
(* ------------------------------------------------------------------ *)
\* the exit made known to the bridge at once (the record's flag cleared)
ProcExit_noticed(p) ==
    /\ procs[p] \in {"alive", "dying"}
    /\ procs' = [procs EXCEPT ![p] = "zombie"]
    /\ handles' = IF owner[p] \in Slots /\ handles[owner[p]] # NULL
                  THEN [handles EXCEPT ![owner[p]].running = 0]
                  ELSE handles
    /\ UNCHANGED <<loaded, owner, pc, cur, last, issued, disk, stale, thr, heap>>

ProcExit(p) ==
    /\ procs[p] \in {"alive", "dying"}
    /\ procs' = [procs EXCEPT ![p] = "zombie"]
    /\ UNCHANGED <<loaded, handles, owner, pc, cur, last, issued, disk, stale, thr, heap>>

\* fork() in the parent: -1, or the child's pid.  Pids are interchangeable;
\* the kernel is taken to hand out the lowest free one, so a reaped pid is
\* recycled as early as possible.
ForkResults ==
    {-1} \cup {p \in FreePids : \A q \in FreePids : p <= q}

\* the calloc calls of one scan fail up to some slot and then succeed (the
\* scan makes no further call): the sets of slots below a bound
CallocOutcomes == {{s \in Slots : s < b} : b \in 0 .. MAX_HANDLES}

Next ==
    \/ \E failed \in {{"qemu_binary"}, StringParams},
          garbage \in Indeterminate :
            nativeStart(failed, {}, -1, garbage)
    \/ \E callocFails \in CallocOutcomes, forkPid \in ForkResults :
            nativeStart({}, callocFails, forkPid, -1)
    \/ \E h \in HandleArgs : nativeStop(h)
    \/ StopPoll
    \/ StopForce
    \/ StopWait
    \/ \E h \in HandleArgs : nativeGetStatus(h)
    \/ \E h \in HandleArgs : nativeCleanup(h)
    \/ CleanupWait
    \/ JNI_OnUnload
    \/ \E p \in Pids : ProcExit(p)

Spec == Init /\ [][Next]_vars

(* ------------------------------------------------------------------ *)
(* nativeStop alone, with scheduling: the table as two successful      *)
(* Starts leave it, either child still running or already exited       *)
(* ------------------------------------------------------------------ *)
InitStop ==
    /\ loaded = TRUE
    /\ handles = [s \in Slots |->
                    IF s < 2 THEN [pid |-> s + 1, running |-> 1] ELSE NULL]
    /\ procs \in {pr \in [Pids -> {"free", "alive", "zombie"}] :
                     \A p \in Pids : (pr[p] = "free") <=> (p > 2)}
    /\ owner = [p \in Pids |-> IF p <= 2 THEN p - 1 ELSE NoSlot]
    /\ pc = "idle"
    /\ cur = Idle
    /\ last = Return(Call("Start", NoSlot), 1, "ok")
    /\ issued = Fresh
    /\ stale = NoSlot
    /\ thr = NoThreads
    /\ heap = <<>>
    /\ disk = NoDisk

NextStop ==
    \/ \E h \in HandleArgs : nativeStop(h)
    \/ StopPoll
    \/ StopForce
    \/ StopWait
    \/ \E p \in Pids : ProcExit(p)

\* the calling thread keeps running (usleep returns, the kill is made, a
\* wait whose child has exited returns), and a process that was sent
\* SIGKILL exits
StopFairness ==
    /\ WF_vars(StopPoll)
    /\ WF_vars(StopForce)
    /\ WF_vars(StopWait)
    /\ \A p \in Pids : WF_vars(procs[p] = "dying" /\ ProcExit(p))

SpecStop == InitStop /\ [][NextStop]_vars /\ StopFairness

(* ------------------------------------------------------------------ *)
(* nativeStart called from two threads.  The statements of             *)
(* allocate_handle and nativeStart are separate steps of each thread;  *)
(* there is no lock.  Here a slot of the table holds a reference       *)
(* [ref |-> r] to the record heap[r], so that a record can outlive its *)
(* slot.  The strings are obtained, calloc and fork succeed.           *)
(* ------------------------------------------------------------------ *)
Threads == {1, 2}

ThreadIdle ==
    [pc |-> "idle", i |-> 0, handle_id |-> NoSlot, handle |-> 0, pid |-> 0,
     ret |-> NoSlot, overlap |-> FALSE]

InFlight(t) == thr[t].pc \notin {"idle", "done"}

\* the test skipped: every slot taken for empty
slot_is_empty_untested(i) == TRUE

\* handles[i] == NULL
slot_is_empty(i) == handles[i] = NULL

InitThreads ==
    /\ loaded = TRUE
    /\ handles = [s \in Slots |-> NULL]
    /\ procs = [p \in Pids |-> "free"]
    /\ owner = [p \in Pids |-> NoSlot]
    /\ pc = "idle"
    /\ cur = Idle
    /\ last = Return(Call("JNI_OnLoad", NoSlot), 0, "")
    /\ issued = Fresh
    /\ stale = NoSlot
    /\ disk = NoDisk
    /\ thr = [t \in Threads |-> ThreadIdle]
    /\ heap = <<>>

\* the thread enters nativeStart and, the strings obtained, allocate_handle;
\* the calls overlap when another thread is inside its own
T_Call(t) ==
    /\ thr[t].pc = "idle"
    /\ thr' = [u \in Threads |->
                 IF u = t
                 THEN [ThreadIdle EXCEPT !.pc = "test",
                          !.overlap = \E v \in Threads \ {t} : InFlight(v)]
                 ELSE IF InFlight(u) THEN [thr[u] EXCEPT !.overlap = TRUE]
                 ELSE thr[u]]
    /\ UNCHANGED <<loaded, handles, procs, owner, pc, cur, last, issued, disk, stale, heap>>

\* for (i ...; i < MAX_HANDLES; ...) if (handles[i] == NULL)
T_Test(t) ==
    /\ thr[t].pc = "test"
    /\ thr' = [thr EXCEPT ![t] =
                 IF thr[t].i >= MAX_HANDLES
                 THEN [@ EXCEPT !.pc = "done", !.handle_id = -1, !.ret = -1]
                 ELSE IF slot_is_empty(thr[t].i)
                 THEN [@ EXCEPT !.pc = "alloc"]
                 ELSE [@ EXCEPT !.i = @ + 1]]
    /\ UNCHANGED <<loaded, handles, procs, owner, pc, cur, last, issued, disk, stale, heap>>

\* handles[i] = calloc(1, sizeof(QemuHandle))
T_Alloc(t) ==
    /\ thr[t].pc = "alloc"
    /\ heap' = Append(heap, [pid |-> 0, running |-> 0])
    /\ handles' = [handles EXCEPT ![thr[t].i] = [ref |-> Len(heap) + 1]]
    /\ thr' = [thr EXCEPT ![t].pc = "check"]
    /\ UNCHANGED <<loaded, procs, owner, pc, cur, last, issued, disk, stale>>

\* if (handles[i]) return i
T_Check(t) ==
    /\ thr[t].pc = "check"
    /\ thr' = [thr EXCEPT ![t] =
                 IF handles[thr[t].i] # NULL
                 THEN [@ EXCEPT !.pc = "load", !.handle_id = thr[t].i]
                 ELSE [@ EXCEPT !.pc = "test", !.i = @ + 1]]
    /\ UNCHANGED <<loaded, handles, procs, owner, pc, cur, last, issued, disk, stale, heap>>

\* QemuHandle *handle = handles[handle_id]
T_Load(t) ==
    /\ thr[t].pc = "load"
    /\ thr' = [thr EXCEPT ![t] =
                 [@ EXCEPT !.pc = "fork", !.handle = handles[thr[t].handle_id].ref]]
    /\ UNCHANGED <<loaded, handles, procs, owner, pc, cur, last, issued, disk, stale, heap>>

\* pid_t pid = fork(), in the parent
T_Fork(t) ==
    /\ thr[t].pc = "fork"
    /\ \E p \in FreePids :
          /\ \A q \in FreePids : p <= q
          /\ procs' = [procs EXCEPT ![p] = "alive"]
          /\ owner' = [owner EXCEPT ![p] = thr[t].handle_id]
          /\ thr' = [thr EXCEPT ![t] = [@ EXCEPT !.pc = "store", !.pid = p]]
    /\ UNCHANGED <<loaded, handles, pc, cur, last, issued, disk, stale, heap>>

\* handle->pid = pid; handle->running = 1; return handle_id
T_Store(t) ==
    /\ thr[t].pc = "store"
    /\ heap' = [heap EXCEPT ![thr[t].handle] = [pid |-> thr[t].pid, running |-> 1]]
    /\ thr' = [thr EXCEPT ![t] = [@ EXCEPT !.pc = "done", !.ret = thr[t].handle_id]]
    /\ UNCHANGED <<loaded, handles, procs, owner, pc, cur, last, issued, disk, stale>>

NextThreads ==
    \E t \in Threads :
        \/ T_Call(t)
        \/ T_Test(t)
        \/ T_Alloc(t)
        \/ T_Check(t)
        \/ T_Load(t)
        \/ T_Fork(t)
        \/ T_Store(t)

SpecThreads == InitThreads /\ [][NextThreads]_vars

(* ================================================================== *)
(* Properties                                                          *)
(* ================================================================== *)

\* the handle id names an occupied slot
Valid(h) == h \in Slots /\ handles[h] # NULL

MarkedRunning(h) == Valid(h) /\ handles[h].running = 1
MarkedStopped(h) == Valid(h) /\ handles[h].running = 0

PidOf(h) == handles[h].pid

\* the process forked for slot h still exists (running, killed or zombie)
Unreaped(h) == Valid(h) /\ PidOf(h) \in Pids
                 /\ procs[PidOf(h)] # "free" /\ owner[PidOf(h)] = h

LowestEmpty(tbl) ==
    CHOOSE s \in Slots \ Occupied(tbl) : \A t \in Slots \ Occupied(tbl) : s <= t

\* this step is the call (or the first step of the call) op(h)
CallStep(op, h) == pc = "idle" /\ last' # last /\ last'.op = op /\ last'.h = h

\* this step is a call op(h) that returned within the step
Returns(op, h) == CallStep(op, h) /\ last'.done /\ pc' = "idle"

\* a step of the bridge (not of a child process)
BridgeStep == <<last, cur, pc, handles>>' # <<last, cur, pc, handles>>

\* a record marked not-running stays as it is until its slot is emptied
StoppedIsStable ==
    \A h \in Slots : MarkedStopped(h) /\ handles'[h] # NULL => handles'[h] = handles[h]

\* Get Status on a record marked not-running returns 0 and waits on nothing
StatusOfStopped ==
    \A h \in Slots : MarkedStopped(h) /\ CallStep("GetStatus", h) =>
        /\ last'.done /\ last'.ret = 0 /\ ~last'.waited /\ last'.sigs = <<>>
        /\ handles' = handles /\ procs' = procs

(* ---------------------------- C1 ---------------------------------- *)
C1_StartStep ==
    CallStep("Start", NoSlot) =>
        /\ (Occupied(handles) = Slots =>
               last'.ret = -1 /\ procs' = procs /\ handles' = handles)
        /\ (last'.path = "ok" /\ last'.skipped = {} =>
               last'.ret = LowestEmpty(handles))
        /\ (issued'.clean => issued'.inOrder)

\* C1: starting from an empty table, the starts that succeed (every
\* allocation and fork of theirs succeeding, no Cleanup in between) return
\* 0,1,2,3 in this order; any Start made while all four slots are occupied
\* returns -1 and spawns no process; a Start that succeeds in this way
\* returns the lowest-index empty slot.
C1_StartAllocation == [][C1_StartStep]_vars

(* ---------------------------- C2 ---------------------------------- *)
\* C2: a Start that spawned a process returns its slot index, in [0,4); a
\* Start that failed (a string parameter not obtained, no free slot, fork
\* failure) returns exactly -1.
C2_StartResult ==
    last.op = "Start" /\ last.done =>
        IF last.path = "ok"
        THEN last.ret \in Slots /\ MarkedRunning(last.ret)
        ELSE last.path \in {"strings", "noslot", "fork"} /\ last.ret = -1

(* ---------------------------- C3 ---------------------------------- *)
C3_ResolveIff ==
    \A h \in HandleArgs :
        (get_handle(h) # NULL) <=> (0 <= h /\ h < 4 /\ handles[h] # NULL)

C3_Quiet ==
    /\ last'.done /\ pc' = "idle"
    /\ last'.sigs = <<>> /\ ~last'.waited
    /\ handles' = handles /\ procs' = procs

C3_InvalidStep ==
    \A h \in HandleArgs : ~Valid(h) =>
        /\ (CallStep("GetStatus", h) => last'.ret = -1 /\ C3_Quiet)
        /\ (CallStep("Stop", h) => last'.ret = JNI_FALSE /\ C3_Quiet)
        /\ (CallStep("Cleanup", h) => C3_Quiet)

\* C3: a handle id resolves to a record exactly when it is in [0,4) and its
\* slot is occupied; for every other id Get Status returns -1, Stop returns
\* false and Cleanup returns, each leaving the table and the processes as
\* they were and sending no signal.
C3_InvalidHandle == [](C3_ResolveIff) /\ [][C3_InvalidStep]_vars

C3_Witness ==
    /\ last.op = "Stop" /\ last.done /\ last.ret = JNI_FALSE
    /\ last.h \in Slots /\ handles[last.h] = NULL
    /\ \E h \in Slots : MarkedRunning(h) /\ procs[PidOf(h)] = "alive"

(* ---------------------------- C4 ---------------------------------- *)
C4_StopReturned ==
    last.op = "Stop" /\ last.done /\ Valid(last.h) =>
        /\ last.ret = JNI_TRUE
        /\ last.path \in {"already", "graceful", "forced"}
        /\ MarkedStopped(last.h)
        /\ ~Unreaped(last.h)

\* C4: a Stop on a valid handle returns true on every path, and when it has
\* returned the record is marked not-running and its process is reaped;
\* from then on the record stays not-running until the slot is emptied, and
\* every Get Status on it returns 0.
C4_StopAlwaysTrue ==
    [](C4_StopReturned) /\ [][StoppedIsStable /\ StatusOfStopped]_vars

\* a Stop that saw the process exit in the graceful loop has returned true
C4_Witness ==
    /\ last.op = "Stop" /\ last.done /\ last.path = "graceful"
    /\ last.ret = JNI_TRUE
    /\ MarkedStopped(last.h) /\ procs[PidOf(last.h)] = "free"

(* ---------------------------- C5 ---------------------------------- *)
\* the step that sends the forced-termination signal inside Stop
StopKills ==
    /\ last.op = "Stop" /\ ~last.done
    /\ Len(last'.sigs) = Len(last.sigs) + 1
    /\ last'.sigs[Len(last'.sigs)][1] = "SIGKILL"

\* C5 as stated: a process that has exited at any point of the graceful
\* window (between the delivery of SIGTERM and the end of the 50 poll/sleep
\* rounds) is never sent SIGKILL by Stop.
C5_ExitInWindowNeverKilled ==
    [][StopKills => procs[PidOf(cur.h)] # "zombie"]_vars

\* a poll of the graceful loop that finds the process exited ends the call
C5_PollSeesExit ==
    pc = "stop_poll" /\ BridgeStep /\ procs[PidOf(cur.h)] = "zombie" =>
        /\ last'.done /\ pc' = "idle" /\ last'.ret = JNI_TRUE
        /\ last'.sigs = << <<"SIGTERM", PidOf(cur.h)>> >>
        /\ handles'[cur.h].running = 0
        /\ procs'[PidOf(cur.h)] = "free"

\* a poll that does not find it exited goes on to the next round
C5_PollSeesNothing ==
    pc = "stop_poll" /\ BridgeStep /\ procs[PidOf(cur.h)] # "zombie" =>
        /\ ~last'.done /\ cur'.i = cur.i + 1 /\ last'.sigs = last.sigs
        /\ handles' = handles /\ procs' = procs

\* the forced signal is sent only after all 50 polls
C5_KillAfterWindow ==
    StopKills => cur.i = STOP_POLLS /\ Len(last.sigs) = 1

C5_ForcedReturned ==
    last.op = "Stop" /\ last.done =>
        /\ last.path = "graceful" =>
              Len(last.sigs) = 1 /\ last.sigs[1][1] = "SIGTERM"
        /\ last.path = "forced" =>
              /\ last.ret = JNI_TRUE /\ last.waited
              /\ Len(last.sigs) = 2
              /\ last.sigs[1] = <<"SIGTERM", PidOf(last.h)>>
              /\ last.sigs[2] = <<"SIGKILL", PidOf(last.h)>>
              /\ ~Unreaped(last.h) /\ MarkedStopped(last.h)

\* C5 amended: Stop returns true without the forced signal when one of its
\* 50 polls finds the process exited; when none does (the process is still
\* running, or exits only after the 50th poll, during the last sleep) it
\* sends SIGKILL after the 50th round, reaps with a blocking wait and
\* returns true.
C5_Escalation ==
    /\ [](C5_ForcedReturned)
    /\ [][C5_PollSeesExit /\ C5_PollSeesNothing /\ C5_KillAfterWindow]_vars

\* the forced path taken although the process had exited during the last sleep
C5_Witness ==
    /\ pc = "stop_wait" /\ cur.i = STOP_POLLS
    /\ Len(last.sigs) = 2
    /\ procs[PidOf(cur.h)] = "zombie"

(* ---------------------------- C6 ---------------------------------- *)
C6_AfterStop ==
    last.op = "Stop" /\ last.done /\ Valid(last.h) => handles[last.h].running = 0

C6_StopOfStopped ==
    \A h \in Slots : MarkedStopped(h) /\ CallStep("Stop", h) =>
        /\ last'.done /\ pc' = "idle" /\ last'.ret = JNI_TRUE
        /\ last'.sigs = <<>> /\ ~last'.waited
        /\ handles' = handles /\ procs' = procs

\* C6: once a Stop on a valid handle has returned the record is not-running
\* and stays so until the slot is emptied, and a Stop on such a record
\* returns true, sends no signal, waits on nothing and changes nothing.
C6_StopIdempotent ==
    [](C6_AfterStop) /\ [][StoppedIsStable /\ C6_StopOfStopped]_vars

C6_Witness ==
    /\ last.op = "Stop" /\ last.done /\ last.path = "already"
    /\ last.ret = JNI_TRUE /\ last.sigs = <<>> /\ ~last.waited
    /\ MarkedStopped(last.h)

(* ---------------------------- C7 ---------------------------------- *)
C7_StatusSeesExit ==
    \A h \in Slots :
        MarkedRunning(h) /\ procs[PidOf(h)] = "zombie" /\ CallStep("GetStatus", h) =>
            /\ last'.done /\ last'.ret = 0 /\ last'.sigs = <<>>
            /\ handles'[h] # NULL /\ handles'[h].running = 0
            /\ handles'[h].pid = PidOf(h)

\* C7: a Get Status on a record marked running whose process has exited
\* returns 0 and marks the record not-running; the record then stays
\* not-running, and every further Get Status on it returns 0 without a wait.
C7_ExternalExit ==
    [][C7_StatusSeesExit /\ StatusOfStopped /\ StoppedIsStable]_vars

C7_Witness ==
    /\ last.op = "GetStatus" /\ last.done /\ last.path = "exited"
    /\ last.ret = 0 /\ last.waited
    /\ MarkedStopped(last.h)

(* ---------------------------- C8 ---------------------------------- *)
\* what Cleanup does to a valid handle: the slot is empty when it returns;
\* a record marked running gets SIGKILL as the first and only signal and a
\* blocking wait; a record marked not-running gets neither
C8_CleanupReturned ==
    last.op = "Cleanup" /\ last.done /\ last.h \in Slots =>
        /\ handles[last.h] = NULL
        /\ last.path = "killed" =>
              /\ Len(last.sigs) = 1 /\ last.sigs[1][1] = "SIGKILL"
              /\ last.waited
              /\ procs[last.sigs[1][2]] = "free"
        /\ last.path = "freed" => last.sigs = <<>> /\ ~last.waited

C8_CleanupStep ==
    \A h \in Slots : Valid(h) /\ CallStep("Cleanup", h) =>
        IF handles[h].running = 1
        THEN /\ last'.sigs = << <<"SIGKILL", PidOf(h)>> >>
             /\ procs'[PidOf(h)] # "alive"
             /\ pc' = "cleanup_wait"
        ELSE /\ last'.done /\ last'.path = "freed" /\ handles'[h] = NULL
             /\ procs' = procs

\* the Start that follows a Cleanup(h), h being the lowest empty slot
StartAfterCleanup ==
    /\ last.op = "Cleanup" /\ last.done /\ last.path \in {"freed", "killed"}
    /\ last.h = LowestEmpty(handles)
    /\ CallStep("Start", NoSlot) /\ last'.path = "ok"

\* C8 as stated: a Cleanup of a valid handle empties the slot (killing and
\* reaping a process marked running first), and the next successful Start
\* returns h whenever h is the lowest-index empty slot.
C8_CleanupThenReuse ==
    /\ [](C8_CleanupReturned)
    /\ [][C8_CleanupStep /\ (StartAfterCleanup => last'.ret = last.h)]_vars

\* C8 amended: as stated, except that the next successful Start returns h
\* when h is the lowest-index empty slot and the allocation of its record
\* succeeds; a slot whose calloc fails is passed over and a higher empty
\* slot is returned.
C8_CleanupThenReuseAllocated ==
    /\ [](C8_CleanupReturned)
    /\ [][/\ C8_CleanupStep
          /\ StartAfterCleanup =>
                 IF last.h \in last'.skipped
                 THEN last'.ret \in Slots /\ last'.ret > last.h
                 ELSE last'.ret = last.h]_vars

C8_Witness ==
    /\ last.op = "Cleanup" /\ last.done /\ last.path = "killed"
    /\ handles[last.h] = NULL
    /\ \E h \in Slots : h > last.h /\ Valid(h)

(* ---------------------------- C9 ---------------------------------- *)
RunningSlots == {h \in Slots : MarkedRunning(h)}

C9_UnloadStep ==
    CallStep("JNI_OnUnload", NoSlot) =>
        /\ \A h \in Slots : handles'[h] = NULL
        /\ Len(last'.sigs) = Cardinality(RunningSlots)
        /\ \A h \in RunningSlots :
              /\ \E k \in 1 .. Len(last'.sigs) : last'.sigs[k] = <<"SIGKILL", PidOf(h)>>
              /\ procs'[PidOf(h)] # "alive"
        /\ \A k \in 1 .. Len(last'.sigs) :
              \E h \in RunningSlots : last'.sigs[k] = <<"SIGKILL", PidOf(h)>>
        /\ \A p \in Pids : procs'[p] # procs[p] => \E h \in RunningSlots : PidOf(h) = p

\* C9: the unload hook leaves all four slots empty, sends SIGKILL to the
\* process of every record marked running, and sends nothing else.
C9_UnloadSweeps == [][C9_UnloadStep]_vars

\* two running handles and a stopped one were swept
C9_Witness ==
    /\ last.op = "JNI_OnUnload" /\ last.done /\ ~loaded
    /\ Len(last.sigs) = 2
    /\ last.freed = 3
    /\ \A h \in Slots : handles[h] = NULL

(* ---------------------------- C10 --------------------------------- *)
\* the file holds a complete header written by a successful call
HeaderWritten == disk.asked /\ disk.ret = JNI_TRUE /\ Len(disk.file) = HEADER_SIZE

\* byte at offset o of the file
FileByte(o) == disk.file[o + 1]

FixedFieldsExact ==
    /\ <<FileByte(0), FileByte(1), FileByte(2), FileByte(3)>> = <<81, 70, 73, 251>>
    /\ <<FileByte(4), FileByte(5), FileByte(6), FileByte(7)>> = <<0, 0, 0, 3>>
    /\ <<FileByte(20), FileByte(21), FileByte(22), FileByte(23)>> = <<0, 0, 0, 16>>
    /\ \A o \in 0 .. (HEADER_SIZE - 1) :
          (o \notin (0 .. 7) \cup (20 .. 31)) => FileByte(o) = 0

\* bytes 24-31 read as a big-endian number N: its low 20 bits are zero
SizeLowBitsZero ==
    FileByte(31) = 0 /\ FileByte(30) = 0 /\ FileByte(29) % 16 = 0

\* bits 20..47 of N (N \div 2^20 without its top 16 bits)
SizeMid ==
    (FileByte(29) \div 16) + 16 * FileByte(28) + 4096 * FileByte(27)
        + 1048576 * FileByte(26)

\* N = size_mb * 1048576 as numbers: N \div 2^20 is size_mb itself, which is
\* below 2^31, so bits 51..63 of N are zero
SizeIsProduct ==
    /\ SizeLowBitsZero
    /\ FileByte(24) = 0 /\ FileByte(25) < 8
    /\ SizeMid + 268435456 * FileByte(25) = disk.size_mb

\* N = 2^64 + size_mb * 1048576 (size_mb < 0): N \div 2^20 = 2^44 + size_mb,
\* whose bits 31..43 are all one and whose low 31 bits are 2^31 + size_mb
SizeIsWrappedProduct ==
    /\ SizeLowBitsZero
    /\ FileByte(24) = 255 /\ FileByte(25) >= 248
    /\ (SizeMid + 268435456 * (FileByte(25) - 248)) - 2147483647 - 1 = disk.size_mb

\* C10 as stated: for every requested size the header has the fixed fields
\* and bytes 24-31 are the unsigned 64-bit big-endian encoding of the number
\* size_mb * 1048576.
C10_HeaderExactAnySize ==
    HeaderWritten => FixedFieldsExact /\ SizeIsProduct

\* C10 amended: the fixed fields always; bytes 24-31 encode size_mb * 1048576
\* for size_mb >= 0 and 2^64 + size_mb * 1048576 (the product taken modulo
\* 2^64) for size_mb < 0.
C10_HeaderExactMod64 ==
    HeaderWritten =>
        /\ FixedFieldsExact
        /\ IF disk.size_mb >= 0 THEN SizeIsProduct ELSE SizeIsWrappedProduct

\* a negative size: -1 MB is written as 0xFFFFFFFFFFF00000
C10_Witness ==
    /\ HeaderWritten
    /\ disk.size_mb = -1
    /\ <<FileByte(24), FileByte(25), FileByte(26), FileByte(27),
         FileByte(28), FileByte(29), FileByte(30), FileByte(31)>>
           = <<255, 255, 255, 255, 255, 240, 0, 0>>

(* ---------------------------- C11 --------------------------------- *)
C11_FailedStartStep ==
    CallStep("Start", NoSlot) /\ last'.path # "ok" =>
        /\ last'.done /\ pc' = "idle"
        /\ last'.path \in {"strings", "noslot", "fork"}
        /\ handles' = handles
        /\ procs' = procs /\ owner' = owner
        /\ last'.path = "noslot" =>
              \A s \in Slots : handles[s] = NULL => s \in last'.skipped
        /\ last'.path = "fork" => Occupied(handles) # Slots

\* C11: a Start that fails (a string parameter not obtained, no slot to be
\* had, fork failing after a slot was reserved) leaves the handle table as
\* it was before the call and no process spawned or tracked.
C11_FailedStartFrame == [][C11_FailedStartStep]_vars

\* a fork failure with some slots occupied and some empty
C11_Witness ==
    /\ last.op = "Start" /\ last.done /\ last.path = "fork" /\ last.ret = -1
    /\ Occupied(handles) # {} /\ Occupied(handles) # Slots
    /\ \A h \in Occupied(handles) : MarkedRunning(h) /\ Unreaped(h)

(* ---------------------------- C12 --------------------------------- *)
\* a Stop on a record marked running sends SIGTERM before anything else
C12_TermFirst ==
    \A h \in Slots : MarkedRunning(h) /\ CallStep("Stop", h) =>
        /\ last'.sigs = << <<"SIGTERM", PidOf(h)>> >>
        /\ ~last'.done /\ ~last'.waited /\ cur' = [h |-> h, i |-> 0]
        /\ pc' = IF Exists(PidOf(h)) THEN "stop_poll" ELSE "stop_force"
        /\ handles' = handles /\ procs' = procs

\* SIGKILL follows SIGTERM, after 50 polls or after no poll at all
C12_KillOnlyAfter ==
    StopKills =>
        /\ last.sigs = << <<"SIGTERM", PidOf(cur.h)>> >>
        /\ last'.sigs[2] = <<"SIGKILL", PidOf(cur.h)>>
        /\ \/ cur.i = 50 /\ last.waited
           \/ cur.i = 0 /\ ~last.waited /\ ~Exists(PidOf(cur.h))

\* each poll either observes the exit and ends the call, or counts one round
C12_FirstObservation ==
    pc = "stop_poll" /\ BridgeStep =>
        IF procs[PidOf(cur.h)] = "zombie"
        THEN /\ last'.done /\ last'.ret = JNI_TRUE /\ pc' = "idle"
             /\ handles'[cur.h].running = 0
             /\ last'.sigs = last.sigs
        ELSE /\ ~last'.done /\ cur'.i = cur.i + 1
             /\ pc' = IF cur.i + 1 = 50 THEN "stop_force" ELSE "stop_poll"
             /\ handles' = handles

C12_InLoop ==
    pc = "stop_poll" =>
        /\ cur.i < 50 /\ Len(last.sigs) = 1
        /\ MarkedRunning(cur.h) /\ last.op = "Stop" /\ last.h = cur.h

\* C12: inside a Stop on a running record SIGTERM is sent first; SIGKILL is
\* sent only when SIGTERM could not be delivered or after exactly 50 polls
\* that did not observe the exit; the first poll that observes the exit
\* marks the record not-running and returns true, with no SIGKILL and no
\* further poll.
C12_StopOrdering ==
    /\ [](C12_InLoop)
    /\ [][C12_TermFirst /\ C12_KillOnlyAfter /\ C12_FirstObservation]_vars

\* a Stop ended by a poll: only SIGTERM was sent
C12_Witness ==
    /\ last.op = "Stop" /\ last.done /\ last.waited
    /\ last.sigs = << <<"SIGTERM", PidOf(last.h)>> >>
    /\ last.path = "graceful" /\ handles[last.h].running = 0

(* ---------------------------- C13 --------------------------------- *)
\* a Start that forked returns the slot and marks it running, whatever the
\* child goes on to do
C13_StartUnaware ==
    CallStep("Start", NoSlot) /\ last'.path = "ok" =>
        /\ last'.ret \in Slots
        /\ handles[last'.ret] = NULL
        /\ handles'[last'.ret] # NULL
        /\ handles'[last'.ret].running = 1
        /\ procs'[handles'[last'.ret].pid] = "alive"

\* the exit of a child changes nothing in the bridge
C13_ExitUnnoticed ==
    (\E p \in Pids : procs[p] # "zombie" /\ procs'[p] = "zombie") =>
        handles' = handles /\ last' = last /\ pc' = pc

\* a record goes from running to not-running only in a Get Status or a Stop
\* on its handle whose wait reaps the exited child
C13_FlipOnlyByObservation ==
    \A h \in Slots :
        MarkedRunning(h) /\ handles'[h] # NULL /\ handles'[h].running = 0 =>
            /\ last'.op \in {"GetStatus", "Stop"} /\ last'.h = h
            /\ last'.waited /\ last'.done
            /\ procs[PidOf(h)] = "zombie" /\ procs'[PidOf(h)] = "free"

\* C13: Start does not report an exec failure in the child: it returns the
\* handle with the record marked running; the child's exit changes nothing
\* in the bridge, and the record stays marked running until a Get Status or
\* a Stop on that handle observes the exit, after which Get Status returns 0.
C13_ExecFailure ==
    [][/\ C13_StartUnaware /\ C13_ExitUnnoticed
       /\ C13_FlipOnlyByObservation /\ StatusOfStopped]_vars

\* the child of the Start that just returned has exited; the record still
\* says running
C13_Witness ==
    /\ last.op = "Start" /\ last.done /\ last.path = "ok"
    /\ MarkedRunning(last.ret)
    /\ procs[PidOf(last.ret)] = "zombie"

(* ---------------------------- C14 --------------------------------- *)
C14_StatusStep ==
    \A h \in HandleArgs : CallStep("GetStatus", h) =>
        /\ last'.done /\ pc' = "idle" /\ cur' = cur
        /\ last'.sigs = <<>>
        /\ \A s \in Slots :
              /\ (handles'[s] = NULL) <=> (handles[s] = NULL)
              /\ handles[s] # NULL =>
                    /\ handles'[s].pid = handles[s].pid
                    /\ handles'[s].running <= handles[s].running
                    /\ (s # h => handles'[s] = handles[s])
        /\ \A p \in Pids :
              /\ procs[p] \in {"alive", "dying"} => procs'[p] = procs[p]
              /\ procs'[p] # procs[p] =>
                    /\ Valid(h) /\ p = PidOf(h)
                    /\ handles[h].running = 1 /\ handles'[h].running = 0

\* C14: a Get Status returns within the call (its only wait is WNOHANG) and
\* sends no signal; it leaves the set of occupied slots and every record's
\* pid as they were, and changes at most the running flag of the queried
\* record, from running to not-running, when it reaps the exited child.
C14_StatusFrame == [][C14_StatusStep]_vars

\* a Get Status that found the process still running
C14_Witness ==
    /\ last.op = "GetStatus" /\ last.done /\ last.path = "running"
    /\ last.ret = 1 /\ last.waited /\ last.sigs = <<>>
    /\ MarkedRunning(last.h) /\ procs[PidOf(last.h)] = "alive"

(* ---------------------------- C15 --------------------------------- *)
\* the id marked stale is the one a Cleanup emptied and the very next call,
\* a successful Start, returned again
C15_Reissue ==
    stale' # NoSlot /\ stale' # stale =>
        /\ last.op = "Cleanup" /\ last.done /\ last.h = stale'
        /\ last.path \in {"freed", "killed"}
        /\ handles[stale'] = NULL
        /\ last'.op = "Start" /\ last'.path = "ok" /\ last'.ret = stale'
        /\ handles'[stale'].running = 1
        /\ procs[handles'[stale'].pid] = "free"

\* the stale id resolves, and to the record of the new process
C15_StaleResolves ==
    stale # NoSlot =>
        /\ get_handle(stale) # NULL /\ get_handle(stale) = handles[stale]
        /\ MarkedRunning(stale) /\ Unreaped(stale)

\* Stop, Get Status and Cleanup called with the stale id act on the new
\* process
C15_StaleActs ==
    \A h \in Slots : stale = h /\ pc = "idle" =>
        /\ CallStep("Stop", h) =>
              /\ last'.sigs = << <<"SIGTERM", PidOf(h)>> >>
              /\ pc' = "stop_poll" /\ stale' = h
        /\ CallStep("GetStatus", h) =>
              /\ last'.waited
              /\ last'.ret = IF procs[PidOf(h)] = "zombie" THEN 0 ELSE 1
        /\ CallStep("Cleanup", h) =>
              /\ last'.sigs = << <<"SIGKILL", PidOf(h)>> >>
              /\ procs'[PidOf(h)] # "alive"
              /\ pc' = "cleanup_wait" /\ stale' = h

\* the Cleanup made with the stale id ends with the new process reaped and
\* its slot empty
C15_StaleCleanupEnds ==
    pc = "cleanup_wait" /\ stale = cur.h /\ BridgeStep =>
        handles'[cur.h] = NULL /\ procs'[PidOf(cur.h)] = "free"

\* C15: no reuse protection: the sequence Start -> h, Cleanup(h), Start -> h
\* happens, the id h the caller kept then resolves to the record of the new
\* process, and a Stop, Get Status or Cleanup made with it signals, reports
\* on, or kills and frees the new process.
C15_NoReuseProtection ==
    /\ [](C15_StaleResolves)
    /\ [][C15_Reissue /\ C15_StaleActs /\ C15_StaleCleanupEnds]_vars

\* a Stop made with the stale id has sent SIGTERM to the new process
C15_Witness ==
    /\ stale \in Slots /\ pc = "stop_poll" /\ cur.h = stale
    /\ last.op = "Stop" /\ last.h = stale
    /\ last.sigs = << <<"SIGTERM", PidOf(stale)>> >>
    /\ procs[PidOf(stale)] = "alive" /\ owner[PidOf(stale)] = stale

(* ---------------------------- C16 --------------------------------- *)
\* inside a Stop the round counter never passes 50, and the forced kill and
\* the blocking wait come after no round or after all 50
C16_Bounded ==
    /\ pc = "stop_poll" => cur.i < 50
    /\ pc \in {"stop_force", "stop_wait"} => cur.i \in {0, 50}

\* every round either ends the call or counts up; the blocking wait is the
\* last step of the call
C16_Progress ==
    /\ pc = "stop_poll" /\ BridgeStep =>
          \/ pc' = "idle" /\ last'.done
          \/ cur'.i = cur.i + 1
    /\ pc = "stop_force" /\ BridgeStep => pc' = "stop_wait" /\ cur' = cur
    /\ pc = "stop_wait" /\ BridgeStep => pc' = "idle" /\ last'.done

\* C16: a Stop on a valid handle makes at most 50 poll/sleep rounds and
\* then at most one blocking wait, and, a process sent SIGKILL exiting in
\* the end, the call returns; so too when the process had exited before
\* the call.
C16_StopTerminates ==
    /\ [](C16_Bounded)
    /\ [][C16_Progress]_vars
    /\ ((last.op = "Stop" /\ ~last.done) ~> (last.op = "Stop" /\ last.done))

\* a Stop that went through all the rounds, the kill and the wait has
\* returned
C16_Witness ==
    /\ last.op = "Stop" /\ last.done /\ last.path = "forced"
    /\ last.ret = JNI_TRUE /\ Len(last.sigs) = 2 /\ pc = "idle"

(* ---------------------------- C17 --------------------------------- *)
\* the pids the table leads to, and the processes it does not lead to
TrackedPids == {heap[handles[s].ref].pid : s \in Occupied(handles)}
Untracked == {p \in Pids : procs[p] # "free" /\ p \notin TrackedPids}

BothReturned == \A t \in Threads : thr[t].pc = "done" /\ thr[t].ret \in Slots

\* both calls were given the same id only if they overlapped; then two
\* records were allocated and one slot holds the second, the first being
\* overwritten, and one of the two processes is tracked by no slot
C17_SameIdMeansRace ==
    BothReturned /\ thr[1].ret = thr[2].ret =>
        /\ thr[1].overlap /\ thr[2].overlap
        /\ Len(heap) = 2
        /\ Occupied(handles) = {thr[1].ret}
        /\ handles[thr[1].ret] = [ref |-> 2]
        /\ Cardinality({p \in Pids : procs[p] = "alive"}) = 2
        /\ Cardinality(Untracked) = 1

\* calls that do not overlap get different ids, and each process is tracked
C17_SequentialSafe ==
    BothReturned /\ ~thr[1].overlap =>
        /\ ~thr[2].overlap
        /\ thr[1].ret # thr[2].ret
        /\ Untracked = {}
        /\ \A t \in Threads :
              heap[handles[thr[t].ret].ref] = [pid |-> thr[t].pid, running |-> 1]

\* C17: the table is safe only under one calling thread: two Start calls
\* that do not overlap get different slots, but when they interleave the
\* test of a slot and the assignment to it are separate steps, and both
\* calls can be given the same slot index: the same id returned twice, one
\* record overwritten and one spawned process left untracked.
C17_StartRace == C17_SameIdMeansRace /\ C17_SequentialSafe

\* both threads were handed slot 0
C17_Witness ==
    /\ BothReturned /\ thr[1].ret = 0 /\ thr[2].ret = 0
    /\ Len(heap) = 2 /\ Untracked # {}
    /\ thr[1].pid # thr[2].pid

(* ---------------------------- C18 --------------------------------- *)
\* a record marked running names a child forked for its slot and not yet
\* reaped; a record marked not-running names a pid whose child was reaped
\* (the pid may since belong to a child of another slot)
C18_RecordsMatchProcesses ==
    \A h \in Slots : Valid(h) =>
        /\ handles[h].running \in {0, 1}
        /\ PidOf(h) \in Pids
        /\ (handles[h].running = 1) <=> Unreaped(h)

\* the record a call in flight works on is marked running
C18_InCall == pc # "idle" => MarkedRunning(cur.h) /\ Unreaped(cur.h)

\* positions in last'.sigs of the signals this step sent
NewSignals ==
    IF pc = "idle"
    THEN IF last' # last THEN 1 .. Len(last'.sigs) ELSE {}
    ELSE (Len(last.sigs) + 1) .. Len(last'.sigs)

\* every signal goes to an unreaped child that a running record names
C18_SignalsHitOwn ==
    \A k \in NewSignals :
        LET p == last'.sigs[k][2]
        IN  /\ p \in Pids /\ procs[p] # "free"
            /\ owner[p] \in Slots /\ MarkedRunning(owner[p])
            /\ PidOf(owner[p]) = p

\* every wait is on an unreaped child of the record's own slot
C18_WaitsHitOwn ==
    /\ \A h \in Slots : CallStep("GetStatus", h) /\ last'.waited => Unreaped(h)
    /\ pc \in {"stop_poll", "stop_wait", "cleanup_wait"} /\ BridgeStep =>
          procs[PidOf(cur.h)] # "free" /\ owner[PidOf(cur.h)] = cur.h

C18_StatusNoError ==
    \A h \in Slots : Valid(h) /\ CallStep("GetStatus", h) =>
        last'.ret \in {0, 1} /\ last'.path # "error"

\* C18: under sequential use a record marked running holds the pid of a
\* spawned child not yet reaped and a record marked not-running holds a
\* reaped pid; so the bridge never signals or waits on a pid it has reaped,
\* and Get Status on a valid handle never gets a wait error.
C18_NoReapedPidTouched ==
    /\ [](C18_RecordsMatchProcesses /\ C18_InCall)
    /\ [][C18_SignalsHitOwn /\ C18_WaitsHitOwn /\ C18_StatusNoError]_vars

\* the pid of a stopped record has been handed to the child of another
\* slot, and a Stop on the stopped record has left that child alone
C18_Witness ==
    /\ last.op = "Stop" /\ last.done /\ last.path = "already" /\ last.sigs = <<>>
    /\ MarkedStopped(last.h)
    /\ \E h \in Slots : /\ h # last.h /\ MarkedRunning(h)
                        /\ PidOf(h) = PidOf(last.h)
                        /\ procs[PidOf(h)] = "alive"

(* ---------------------------- C19 --------------------------------- *)
\* every existing child is named by the record of the slot it was forked for
C19_AllTracked ==
    loaded =>
        \A p \in Pids : procs[p] # "free" =>
            /\ owner[p] \in Slots /\ handles[owner[p]] # NULL
            /\ handles[owner[p]].pid = p

\* when a slot is emptied its child is neither alive nor a zombie
C19_EmptiedAfterReap ==
    \A h \in Slots : Valid(h) /\ handles'[h] = NULL /\ loaded' =>
        \/ procs'[PidOf(h)] = "free"
        \/ owner'[PidOf(h)] # h

\* C19: without unload, after any sequence of Start, Stop, Get Status and
\* Cleanup calls every spawned process is tracked by a non-empty slot or has
\* exited and been reaped, and no slot is emptied while its process is alive
\* or an unreaped zombie.
C19_NoLeak == [](C19_AllTracked) /\ [][C19_EmptiedAfterReap]_vars

\* a Cleanup has killed, reaped and freed one handle while another child
\* is still running and tracked
C19_Witness ==
    /\ last.op = "Cleanup" /\ last.done /\ last.path = "killed" /\ loaded
    /\ procs[last.sigs[1][2]] = "free"
    /\ \E p \in Pids : procs[p] = "alive" /\ MarkedRunning(owner[p])
====
